---- MODULE Spec2Model ----
(***************************************************************************)
(* Model of the chart service in src/app.py: the TwelveData fetcher with   *)
(* its in-memory TTL cache, the /chart handler around it, and the signal   *)
(* overlay drawn on the price axis.                                        *)
(*                                                                         *)
(* Spec        /chart requests handled one at a time (each handler is one  *)
(*             atomic action) against the process-wide _CACHE and a clock. *)
(* SpecOverlay draw_signal_overlay applied to every combination of         *)
(*             supplied / omitted entry, sl, tp1..tp3.                     *)
(* SpecConc    two worker threads running fetch_twelvedata statement by    *)
(*             statement on the shared _CACHE (the endpoint is a plain def,*)
(*             so the framework runs it on a thread pool).                 *)
(***************************************************************************)
EXTENDS Integers, Sequences, FiniteSets, TLC

VARIABLES
    TWELVE_KEY,   \* os.getenv("TWELVE_KEY", ""), read once at import
    _CACHE,       \* dict: cache_key -> (value, ts)
    now,          \* datetime.now(timezone.utc), in seconds
    resp,         \* the last /chart request and its response
    produced,     \* history: per cache_key, the series as _cache_set stored it last
    ov,           \* overlay: the request's entry/sl/tp inputs and the axis artists
    th            \* per worker thread: its position in fetch_twelvedata and locals

vars == <<TWELVE_KEY, _CACHE, now, resp, produced, ov, th>>

\* Optional values: Python's None is the empty tuple, a present value x is <<x>>.
None == <<>>
Some(x) == <<x>>
Val(o) == o[1]
\* float("nan"), what pd.to_numeric(errors="coerce") yields for a bad field
NaN == <<>>

----------------------------------------------------------------------------
(* Bounds of the model *)

\* the clock stops advancing here
MaxTime == 61
\* longest `values` array the provider returns
MaxRows == 2

\* datetime.now() advances between requests by one of these amounts
Ticks == {60, 61}

----------------------------------------------------------------------------
(* Configuration and request inputs *)

_CACHE_TTL == 60

Credentials == {"", "k3y"}
Symbols == {"XAU/USD", "AAPL"}
Intervals == {"1h"}
BarsSet == {300}
Tzs == {"UTC"}

\* `ma` after ma.split(","): None when the parameter is absent; <<"">> is ma="".
MaInputs == {None, Some(<<"20", " 50 ", "">>), Some(<<"20", "abc">>)}

\* the provider's rows: `datetime` as an instant, `close` as the JSON string
Dates == {1, 2}
CloseStrings == {"10.5"}
Rows == [datetime : Dates, close : CloseStrings]
ValueArrays == UNION {[1..m -> Rows] : m \in 0..MaxRows}

\* What requests.get + r.json() can come to.
\*   timeout   requests.get raises (timeout, connection error)
\*   badjson   r.json() raises
\*   null      the body is JSON null or a number: `"status" in data` raises TypeError
\*   array     the body is a JSON array or string: no key is `in` it
\*   error     an object with status == "error"
\*   novalues  an object without `values`
\*   values    an object with `values`; volume tells if the rows carry `volume`
\*             (the provider sends none for forex and metals)
Responses ==
    [kind : {"timeout", "badjson", "null", "array", "error", "novalues"},
     values : {<<>>}, volume : {TRUE}]
    \cup [kind : {"values"}, values : ValueArrays, volume : {TRUE}]
    \cup [kind : {"values"}, values : [1..1 -> Rows], volume : {FALSE}]

----------------------------------------------------------------------------
(* _CACHE: a dict, modelled as a function whose domain is the keys present *)

EmptyDict == [k \in {} |-> None]

DictGet(d, key) == IF key \in DOMAIN d THEN Some(d[key]) ELSE None

DictSet(d, key, v) == [k \in DOMAIN d \cup {key} |-> IF k = key THEN v ELSE d[k]]

DictPop(d, key) == [k \in DOMAIN d \ {key} |-> d[k]]

\* line 38: (datetime.now(timezone.utc) - ts).total_seconds() > _CACHE_TTL
ExpiredAtTtl(ts, t) == t - ts >= _CACHE_TTL

Expired(ts, t) == t - ts > _CACHE_TTL

\* _cache_get(key) at time t on dict d: the value returned and the dict left behind
_cache_get(d, key, t) ==
    LET hit == DictGet(d, key) IN
    IF hit = None THEN [value |-> None, cache |-> d]
    ELSE IF Expired(Val(hit).ts, t) THEN [value |-> None, cache |-> DictPop(d, key)]
    ELSE [value |-> Some(Val(hit).value), cache |-> d]

\* _cache_set(key, value) at time t
_cache_set(d, key, value, t) == DictSet(d, key, [value |-> value, ts |-> t])

----------------------------------------------------------------------------
(* fetch_twelvedata *)

Max(a, b) == IF a >= b THEN a ELSE b
Min(a, b) == IF a <= b THEN a ELSE b

outputsize(bars) == Max(50, Min(5000, bars))

\* the request parameters; json.dumps(params, sort_keys=True) is one-to-one on them
params(symbol, interval, bars, timezone_name) ==
    [symbol |-> symbol, interval |-> interval, outputsize |-> outputsize(bars),
     timezone |-> timezone_name, format |-> "JSON", apikey |-> TWELVE_KEY,
     order |-> "ASC"]

cache_key(symbol, interval, bars, timezone_name) ==
    <<"td:", params(symbol, interval, bars, timezone_name)>>

\* line 58: `if not TWELVE_KEY`
CredentialNeverMissing(key) == FALSE

CredentialMissing(key) == key = ""

\* pd.to_numeric(..., errors="coerce") on one field
to_numeric(s) == CASE s = "10.5" -> Some(21)   \* the model counts prices in halves
                   [] OTHER -> NaN

\* one row of the frame after to_numeric, to_datetime and rename
FrameRow(r) == [datetime |-> r.datetime, Close |-> to_numeric(r.close)]

\* df.sort_values("datetime"): the rows in ascending order of datetime. The default
\* sort is not stable, so rows with equal datetime come in any order.
IsPermutation(p, n) == \A i \in 1..n : \E j \in 1..n : p[j] = i

sort_values(rows) ==
    {[i \in 1..Len(rows) |-> rows[p[i]]] :
        p \in {q \in [1..Len(rows) -> 1..Len(rows)] :
                 /\ IsPermutation(q, Len(rows))
                 /\ \A i \in 1..Len(rows) - 1 :
                        rows[q[i]].datetime <= rows[q[i + 1]].datetime}}

OHLCV == {"Open", "High", "Low", "Close", "Volume"}

\* The frame lines 89-99 build from data["values"], or "KeyError" when a column
\* the loop reads is missing (an empty array gives a frame with no columns).
KeyError(response) == response.values = <<>> \/ ~response.volume

Frames(response) ==
    {[rows |-> s, cols |-> OHLCV] :
        s \in sort_values([i \in 1..Len(response.values) |->
                               FrameRow(response.values[i])])}

\* Frames, tabulated over the answers the model's provider gives
FramesOf == [response \in Responses |-> Frames(response)]

\* What a call can raise: nothing, HTTPException(status_code), or another exception
NoRaise == [exc |-> "none", status_code |-> 0]
HTTPException(status_code) == [exc |-> "HTTPException", status_code |-> status_code]
OtherException == [exc |-> "Exception", status_code |-> 0]

\* What one call of fetch_twelvedata comes to:
\*   raised    the exception it ends with, or NoRaise
\*   df        the frame returned (None when it raised)
\*   cache     _CACHE afterwards
\*   ncalls    upstream requests issued
\*   stored    whether _cache_set ran
\*   upstream  the kind of answer the provider gave ("none" without a request)
\*   nvalues   the length of its `values` array
Outcome(raised, df, cache, ncalls, stored, response) ==
    [raised |-> raised, df |-> df, cache |-> cache, ncalls |-> ncalls,
     stored |-> stored, upstream |-> response.kind, nvalues |-> Len(response.values)]

NoResponse == [kind |-> "none", values |-> <<>>, volume |-> TRUE]

\* lines 78-102: requests.get answered by `response`, on dict d at time t
FetchMiss(key, d, t, response) ==
    CASE response.kind = "timeout" ->
            {Outcome(OtherException, None, d, 1, FALSE, response)}
      [] response.kind = "badjson" ->
            {Outcome(HTTPException(502), None, d, 1, FALSE, response)}
      [] response.kind = "null" ->
            {Outcome(OtherException, None, d, 1, FALSE, response)}
      [] response.kind = "error" ->
            {Outcome(HTTPException(502), None, d, 1, FALSE, response)}
      [] response.kind \in {"array", "novalues"} ->
            {Outcome(HTTPException(502), None, d, 1, FALSE, response)}
      [] response.kind = "values" ->
            IF KeyError(response)
            THEN {Outcome(OtherException, None, d, 1, FALSE, response)}
            ELSE {Outcome(NoRaise, Some(df), _cache_set(d, key, df, t), 1, TRUE,
                          response) : df \in FramesOf[response]}

\* fetch_twelvedata at time t on dict d: the set of outcomes, over every answer the
\* provider can give when it is asked (and the order sort_values leaves ties in)
fetch_twelvedata(symbol, interval, bars, timezone_name, d, t) ==
    IF CredentialMissing(TWELVE_KEY)
    THEN {Outcome(HTTPException(500), None, d, 0, FALSE, NoResponse)}
    ELSE
    LET key == cache_key(symbol, interval, bars, timezone_name)
        cached == _cache_get(d, key, t)
    IN  IF cached.value # None
        THEN {Outcome(NoRaise, cached.value, cached.cache, 0, FALSE, NoResponse)}
        ELSE UNION {FetchMiss(key, cached.cache, t, response) : response \in Responses}

----------------------------------------------------------------------------
(* chart: the /chart handler *)

\* x.strip() and int(x) on the tokens the model sends
strip(x) == CASE x = " 50 " -> "50"
              [] OTHER -> x

IntRaises(x) == x \notin {"20", "50"}

\* line 203: `if ma`; lines 204-207: the list comprehension raises on a bad token
MaGiven(ma) == ma # None /\ Val(ma) # <<"">>

MaRaises(ma) ==
    \E i \in 1..Len(Val(ma)) : strip(Val(ma)[i]) # "" /\ IntRaises(strip(Val(ma)[i]))

\* lines 210-211: df["EMA20"] = ..., df["EMA50"] = ... on the frame it was handed
WithEma(df) == [df EXCEPT !.cols = @ \cup {"EMA20", "EMA50"}]

\* The frame fetch_twelvedata returns IS the object _CACHE holds under the key (it
\* returns the cached object on a hit and stores the object it returns on a miss), so
\* an assignment of a column by chart shows in the cached entry as well.
AssignColumns(d, key, df) ==
    IF key \in DOMAIN d THEN [d EXCEPT ![key].value = WithEma(df)] ELSE d

\* What one /chart request comes to: the HTTP status, whether PNG bytes were
\* produced, _CACHE afterwards, and what the fetch did.
Response(status, image, cache, o) ==
    [status |-> status, image |-> image, cache |-> cache, ncalls |-> o.ncalls,
     returned |-> o.df, stored |-> o.stored, upstream |-> o.upstream,
     nvalues |-> o.nvalues]

chart(symbol, interval, bars, tz, ma, draw_ema, d, t) ==
    {   IF o.raised.exc = "HTTPException"
            THEN Response(o.raised.status_code, FALSE, o.cache, o)
        ELSE IF o.raised.exc = "Exception"
            THEN Response(500, FALSE, o.cache, o)
        ELSE IF Val(o.df).rows = <<>>
            THEN Response(404, FALSE, o.cache, o)
        ELSE IF MaGiven(ma) /\ MaRaises(ma)
            THEN Response(400, FALSE, o.cache, o)
        ELSE IF draw_ema
            THEN Response(200, TRUE,
                          AssignColumns(o.cache,
                                        cache_key(symbol, interval, bars, tz),
                                        Val(o.df)), o)
        ELSE Response(200, TRUE, o.cache, o)
      : o \in fetch_twelvedata(symbol, interval, bars, tz, d, t) }

----------------------------------------------------------------------------
(* Spec: requests handled one after another *)

NoRequest ==
    [key |-> None, ma |-> None, status |-> 0, image |-> FALSE, ncalls |-> 0,
     upstream |-> "none", nvalues |-> 0, returned |-> None]

OvIdle == [pc |-> "off"]
ThIdle == [pc |-> "off"]

Init ==
    /\ TWELVE_KEY \in Credentials
    /\ _CACHE = EmptyDict
    /\ now = 0
    /\ resp = NoRequest
    /\ produced = EmptyDict
    /\ ov = OvIdle
    /\ th = ThIdle

\* One GET /chart, start to finish.
Chart ==
    \E symbol \in Symbols, interval \in Intervals, bars \in BarsSet, tz \in Tzs,
       ma \in MaInputs, draw_ema \in BOOLEAN :
      \E r \in chart(symbol, interval, bars, tz, ma, draw_ema, _CACHE, now) :
        LET key == cache_key(symbol, interval, bars, tz) IN
        /\ _CACHE' = r.cache
        /\ resp' = [key |-> Some(key),
                    ma |-> ma,
                    status |-> r.status,
                    image |-> r.image,
                    ncalls |-> r.ncalls,
                    upstream |-> r.upstream,
                    nvalues |-> r.nvalues,
                    returned |-> r.returned]
        /\ produced' = IF r.stored
                       THEN DictSet(produced, key,
                                    [value |-> Val(r.returned), ts |-> now])
                       ELSE produced
        /\ UNCHANGED <<TWELVE_KEY, now, ov, th>>

\* Time passes between requests.
Tick ==
    \E dt \in Ticks :
        /\ now + dt <= MaxTime
        /\ now' = now + dt
        /\ UNCHANGED <<TWELVE_KEY, _CACHE, resp, produced, ov, th>>

Next == Chart \/ Tick

Spec == Init /\ [][Next]_vars

----------------------------------------------------------------------------
(* draw_signal_overlay: the artists it adds to the price axis *)

\* entry, sl, tp1..tp3: Optional[float]
Prices == {0, 100, 110}
OptPrices == {None} \cup {Some(v) : v \in Prices}

NoArtists == [lines |-> <<>>, texts |-> <<>>, patches |-> <<>>]

\* ax.axhline(y, linestyle=...) followed by ax.text(last_time, y, label)
Level(ax, y, linestyle, label, last_time) ==
    [ax EXCEPT !.lines = Append(@, [y |-> y, linestyle |-> linestyle]),
               !.texts = Append(@, [x |-> last_time, y |-> y, s |-> label])]

\* lines 110-112
EntryLevel(ax, entry, last_time) ==
    IF entry # None THEN Level(ax, Val(entry), "--", "  ENTRY", last_time) ELSE ax

\* lines 114-116
SlLevel(ax, sl, last_time) ==
    IF sl # None THEN Level(ax, Val(sl), "-.", "  SL", last_time) ELSE ax

\* lines 118-127: the box between entry and sl
UnsortedZone(ax, entry, sl, last_time) ==
    IF entry # None /\ sl # None
    THEN [ax EXCEPT !.patches =
            Append(@, [x |-> last_time, y |-> Val(entry), width |-> "1min",
                       height |-> Val(sl) - Val(entry)])]
    ELSE ax

RiskZone(ax, entry, sl, last_time) ==
    IF entry # None /\ sl # None
    THEN LET y0 == Min(Val(entry), Val(sl))
             y1 == Max(Val(entry), Val(sl))
         IN  [ax EXCEPT !.patches =
                Append(@, [x |-> last_time, y |-> y0, width |-> "1min",
                           height |-> y1 - y0])]
    ELSE ax

\* f"  TP{i}"
TpLabel(i) == CASE i = 1 -> "  TP1"
                [] i = 2 -> "  TP2"
                [] i = 3 -> "  TP3"

\* lines 129-133, from slot i on: enumerate(tps, start=1), skipping the None slots
RECURSIVE TpLevelsRenumbered(_, _, _, _, _)
TpLevelsRenumbered(ax, tps, i, n, last_time) ==
    IF i > Len(tps) THEN ax
    ELSE IF tps[i] = None THEN TpLevelsRenumbered(ax, tps, i + 1, n, last_time)
    ELSE TpLevelsRenumbered(Level(ax, Val(tps[i]), ":", TpLabel(n), last_time),
                            tps, i + 1, n + 1, last_time)

RECURSIVE TpLevelsFrom(_, _, _, _)
TpLevelsFrom(ax, tps, i, last_time) ==
    IF i > Len(tps) THEN ax
    ELSE IF tps[i] = None THEN TpLevelsFrom(ax, tps, i + 1, last_time)
    ELSE TpLevelsFrom(Level(ax, Val(tps[i]), ":", TpLabel(i), last_time),
                      tps, i + 1, last_time)

\* a loop that numbers the targets it draws instead of the slots
TpLevelsCounted(ax, tps, last_time) == TpLevelsRenumbered(ax, tps, 1, 1, last_time)

TpLevels(ax, tps, last_time) == TpLevelsFrom(ax, tps, 1, last_time)

draw_signal_overlay(ax, entry, sl, tps, last_time) ==
    TpLevels(RiskZone(SlLevel(EntryLevel(ax, entry, last_time), sl, last_time),
                      entry, sl, last_time),
             tps, last_time)

----------------------------------------------------------------------------
(* SpecOverlay: the overlay step of a /chart request that got its frame *)

InitOverlay ==
    /\ TWELVE_KEY = "k3y"
    /\ _CACHE = EmptyDict
    /\ now = 0
    /\ resp = NoRequest
    /\ produced = EmptyDict
    /\ th = ThIdle
    /\ \E entry \in OptPrices, sl \in OptPrices, tp1 \in OptPrices,
          tp2 \in OptPrices, tp3 \in OptPrices, last_time \in Dates :
         ov = [pc |-> "plotted", entry |-> entry, sl |-> sl, tp1 |-> tp1,
               tp2 |-> tp2, tp3 |-> tp3, last_time |-> last_time, ax |-> NoArtists]

\* lines 238-243: tps = [tp1, tp2, tp3]; draw_signal_overlay(ax_price, ...)
Overlay ==
    /\ ov.pc = "plotted"
    /\ LET tps == <<ov.tp1, ov.tp2, ov.tp3>> IN
       ov' = [ov EXCEPT !.pc = "drawn",
                        !.ax = draw_signal_overlay(ov.ax, ov.entry, ov.sl, tps,
                                                   ov.last_time)]
    /\ UNCHANGED <<TWELVE_KEY, _CACHE, now, resp, produced, th>>

NextOverlay == Overlay

SpecOverlay == InitOverlay /\ [][NextOverlay]_vars

----------------------------------------------------------------------------
(* SpecConc: fetch_twelvedata on two worker threads, statement by statement *)

Threads == {1, 2}

\* the concurrent requests ask for the same series; the provider answers with a
\* one-bar series or not at all
ConcSymbol == "XAU/USD"
ConcResponses ==
    {r \in Responses : r.kind = "timeout" \/ (r.kind = "values" /\ Len(r.values) = 1
                                               /\ r.volume)}

\* a thread between requests
Idle == [pc |-> "idle", key |-> None, hit |-> None, df |-> None, result |-> None]

InitConc ==
    /\ TWELVE_KEY = "k3y"
    /\ _CACHE = EmptyDict
    /\ now = 0
    /\ resp = NoRequest
    /\ produced = EmptyDict
    /\ ov = OvIdle
    /\ th = [t \in Threads |-> Idle]

\* lines 58-73: the credential check, params and cache_key
Call(t) ==
    /\ th[t].pc = "idle"
    /\ ~CredentialMissing(TWELVE_KEY)
    /\ \E interval \in Intervals, bars \in BarsSet, tz \in Tzs :
         th' = [th EXCEPT ![t] = [Idle EXCEPT !.pc = "get",
                   !.key = Some(cache_key(ConcSymbol, interval, bars, tz))]]
    /\ UNCHANGED <<TWELVE_KEY, _CACHE, now, resp, produced, ov>>

\* line 34: hit = _CACHE.get(key)
Get(t) ==
    /\ th[t].pc = "get"
    /\ th' = [th EXCEPT ![t].pc = "check",
                        ![t].hit = DictGet(_CACHE, Val(th[t].key))]
    /\ UNCHANGED <<TWELVE_KEY, _CACHE, now, resp, produced, ov>>

\* lines 35-38, 41 and 75-76: no hit, or the age test; a fresh hit is returned
Check(t) ==
    /\ th[t].pc = "check"
    /\ th' = [th EXCEPT ![t] =
                IF th[t].hit = None THEN [@ EXCEPT !.pc = "request"]
                ELSE IF Expired(Val(th[t].hit).ts, now) THEN [@ EXCEPT !.pc = "pop"]
                ELSE [Idle EXCEPT !.result = Some(Val(th[t].hit))]]
    /\ UNCHANGED <<TWELVE_KEY, _CACHE, now, resp, produced, ov>>

\* lines 39-40: _CACHE.pop(key, None)
Pop(t) ==
    /\ th[t].pc = "pop"
    /\ _CACHE' = DictPop(_CACHE, Val(th[t].key))
    /\ th' = [th EXCEPT ![t].pc = "request", ![t].hit = None]
    /\ UNCHANGED <<TWELVE_KEY, now, resp, produced, ov>>

\* lines 78-99: the upstream request and the frame built from its answer
Request(t) ==
    /\ th[t].pc = "request"
    /\ \E response \in ConcResponses :
         \E o \in FetchMiss(Val(th[t].key), _CACHE, now, response) :
            th' = [th EXCEPT ![t] =
                     IF o.raised.exc = "none"
                     THEN [@ EXCEPT !.pc = "set", !.df = o.df]
                     ELSE Idle]
    /\ UNCHANGED <<TWELVE_KEY, _CACHE, now, resp, produced, ov>>

\* lines 101-102: _cache_set(cache_key, df); return df
Set(t) ==
    /\ th[t].pc = "set"
    /\ _CACHE' = _cache_set(_CACHE, Val(th[t].key), Val(th[t].df), now)
    /\ produced' = DictSet(produced, Val(th[t].key),
                           [value |-> Val(th[t].df), ts |-> now])
    /\ th' = [th EXCEPT ![t] =
                [Idle EXCEPT !.result = Some([value |-> Val(th[t].df), ts |-> now])]]
    /\ UNCHANGED <<TWELVE_KEY, now, resp, ov>>

TickConc ==
    \E dt \in Ticks :
        /\ now + dt <= MaxTime
        /\ now' = now + dt
        /\ UNCHANGED <<TWELVE_KEY, _CACHE, resp, produced, ov, th>>

NextConc ==
    \/ \E t \in Threads : Call(t)
    \/ \E t \in Threads : Get(t)
    \/ \E t \in Threads : Check(t)
    \/ \E t \in Threads : Pop(t)
    \/ \E t \in Threads : Request(t)
    \/ \E t \in Threads : Set(t)
    \/ TickConc

SpecConc == InitConc /\ [][NextConc]_vars

----------------------------------------------------------------------------
(* The claims *)

\* In Spec a step that leaves the clock alone is one /chart request; resp' tells
\* which series it asked for and what came of it.
Requested == Val(resp.key)

C2_UpstreamFailureIs502 ==
    resp.upstream \in {"timeout", "badjson", "null", "array", "error", "novalues"}
        => resp.status = 502 /\ ~resp.image

\* C3: when the provider's `values` is present but empty, the request ends with
\* HTTP 404 and no entry is stored in the cache for that key.
C3_EmptyValuesIs404 ==
    (resp.upstream = "values" /\ resp.nvalues = 0)
        => resp.status = 404 /\ Requested \notin DOMAIN _CACHE

\* an `ma` list with a token that is no integer
BadMa(ma) == ma # None /\ \E i \in 1..Len(Val(ma)) : Val(ma)[i] = "abc"

\* C4: a request whose `ma` list does not parse as comma-separated integers ends
\* with HTTP 400 and issues no upstream request (stated here for a service that has
\* its credential, where nothing else stops the request first).
C4_BadMaIs400BeforeAnyCall ==
    (resp.key # None /\ BadMa(resp.ma) /\ TWELVE_KEY # "")
        => resp.status = 400 /\ resp.ncalls = 0

\* C5: every series fetch_twelvedata returns is non-empty and strictly ascending by
\* timestamp (so no two bars share a timestamp), whatever the provider sent.
C5_ReturnedSeriesStrictlyAscending ==
    resp.returned # None =>
        LET rows == Val(resp.returned).rows IN
        /\ rows # <<>>
        /\ \A i \in 1..Len(rows) - 1 : rows[i].datetime < rows[i + 1].datetime

\* C7: with no credential configured every request fails with HTTP 500, issues no
\* upstream request and leaves _CACHE as it was (empty, since nothing ever stored).
C7_NoCredentialFailsFirst ==
    TWELVE_KEY = "" =>
        /\ _CACHE = EmptyDict
        /\ resp.key # None =>
              resp.status = 500 /\ resp.ncalls = 0 /\ resp.upstream = "none"
                /\ ~resp.image /\ resp.returned = None

\* C7 witness: a request handled with no credential configured
C7_Witness == TWELVE_KEY = "" /\ resp.key # None /\ resp.status = 500

\* C10: the series a cache hit returns has exactly the columns and rows of the
\* series the fetch that stored it produced.
C10_CachedSeriesNeverModified ==
    (resp.returned # None /\ resp.ncalls = 0)
        => Val(resp.returned) = produced[Requested].value

----------------------------------------------------------------------------
(* The claims about the overlay (SpecOverlay) *)

Supplied == {Val(tp) : tp \in {ov.tp1, ov.tp2, ov.tp3} \ {None}}
MaxOf(S) == CHOOSE m \in S : \A x \in S : x <= m
MinOf(S) == CHOOSE m \in S : \A x \in S : m <= x
Patches == {ov.ax.patches[i] : i \in DOMAIN ov.ax.patches}

SlotLabel == <<"  TP1", "  TP2", "  TP3">>
Labelled(label) == {i \in DOMAIN ov.ax.texts : ov.ax.texts[i].s = label}
OneLevel(value, label, linestyle) ==
    /\ Cardinality(Labelled(label)) = IF value = None THEN 0 ELSE 1
    /\ \A i \in Labelled(label) :
          /\ ov.ax.texts[i].y = Val(value)
          /\ ov.ax.lines[i] = [y |-> Val(value), linestyle |-> linestyle]

\* C9: the overlay draws exactly one level (a line and its label) for each supplied
\* value among entry, sl, tp1, tp2, tp3 and none for an omitted one, and each target
\* level carries the label of its own slot.
C9_OneLevelPerSuppliedValue ==
    ov.pc = "drawn" =>
        /\ Len(ov.ax.lines) = Len(ov.ax.texts)
        /\ Len(ov.ax.lines) =
              Cardinality({i \in 1..5 :
                  <<ov.entry, ov.sl, ov.tp1, ov.tp2, ov.tp3>>[i] # None})
        /\ OneLevel(ov.entry, "  ENTRY", "--")
        /\ OneLevel(ov.sl, "  SL", "-.")
        /\ \A k \in 1..3 : OneLevel(<<ov.tp1, ov.tp2, ov.tp3>>[k], SlotLabel[k], ":")

\* C9 witness: targets 1 and 3 supplied, target 2 omitted
C9_Witness ==
    /\ ov.pc = "drawn"
    /\ ov.tp1 # None /\ ov.tp2 = None /\ ov.tp3 # None
    /\ Labelled("  TP3") # {}

----------------------------------------------------------------------------
(* The claim about concurrent requests (SpecConc) *)

\* C6: in no interleaving of two requests does a lookup return an entry older than
\* the TTL, nor does an entry a request stored disappear while it is within its TTL.
C6_NoStaleHitNoLostStore ==
    [][ /\ \A t \in Threads :
              (th[t].pc = "check" /\ th'[t].result # None)
                  => now - Val(th'[t].result).ts <= 60
        /\ \A k \in DOMAIN _CACHE :
              now - _CACHE[k].ts <= 60 => k \in DOMAIN _CACHE' ]_vars

====
